---- MODULE Spec2Model ----
(***************************************************************************)
(* Model of the asset catalog table (AssetsCatalogTable) and its client    *)
(* side paginator (buildFlatProps / buildNamespaceProps).                   *)
(*                                                                         *)
(* A JavaScript string is modelled as the sequence of its UTF-16 code      *)
(* units (natural numbers), so that JSON.stringify, JSON.parse, the        *)
(* relational operator <= on strings and Array.prototype.sort are computed *)
(* as the engine computes them, not assumed.                               *)
(***************************************************************************)
EXTENDS Integers, Sequences, FiniteSets, TLC

\* ------------------------------------------------------------------------
\* Code units used by the serialisation
\* ------------------------------------------------------------------------
QUOTE == 34
COMMA == 44
LBRACKET == 91
BACKSLASH == 92
RBRACKET == 93

\* `undefined` where a string may stand: a value that is no string of code
\* units; and what a call evaluates to when it reads a property of
\* `undefined` (TypeError)
UNDEFINED == <<-1>>
TYPE_ERROR == <<-2>>

\* ------------------------------------------------------------------------
\* Strings
\* ------------------------------------------------------------------------
RECURSIVE StrLessFrom(_, _, _)
\* s < t, given that s and t agree before position i
StrLessFrom(s, t, i) ==
  IF i > Len(t) THEN FALSE
  ELSE IF i > Len(s) THEN TRUE
  ELSE IF s[i] # t[i] THEN s[i] < t[i]
  ELSE StrLessFrom(s, t, i + 1)

\* s < t on strings: comparison of code units, a proper prefix comes first
StrLess(s, t) == StrLessFrom(s, t, 1)

\* s <= t on strings
StrLE(s, t) == s = t \/ StrLess(s, t)

RECURSIVE Concat(_)
\* the concatenation of a sequence of sequences
Concat(ss) == IF ss = <<>> THEN <<>> ELSE Head(ss) \o Concat(Tail(ss))

RECURSIVE Join(_, _)
\* Array.prototype.join: the strings of arr separated by sep
Join(arr, sep) ==
  IF arr = <<>> THEN <<>>
  ELSE IF Len(arr) = 1 THEN arr[1]
  ELSE arr[1] \o sep \o Join(Tail(arr), sep)

\* ------------------------------------------------------------------------
\* JSON.stringify and JSON.parse, on arrays of strings
\* ------------------------------------------------------------------------
\* the escape of one code unit inside a JSON string (the alphabet of the
\* model holds no control character and no surrogate, whose escapes are
\* \uXXXX)
EscapeChar(c) ==
  IF c = QUOTE THEN <<BACKSLASH, QUOTE>>
  ELSE IF c = BACKSLASH THEN <<BACKSLASH, BACKSLASH>>
  ELSE <<c>>

\* JSON.stringify of a string
QuoteString(s) ==
  <<QUOTE>> \o Concat([i \in 1..Len(s) |-> EscapeChar(s[i])]) \o <<QUOTE>>

\* JSON.stringify of an array of strings
JSONStringify(arr) ==
  <<LBRACKET>> \o Join([i \in 1..Len(arr) |-> QuoteString(arr[i])], <<COMMA>>)
    \o <<RBRACKET>>

RECURSIVE ParseString(_, _, _)
\* reads a JSON string of x whose opening quote is before position i;
\* the string read and the position after its closing quote
ParseString(x, i, acc) ==
  IF x[i] = QUOTE THEN [val |-> acc, next |-> i + 1]
  ELSE IF x[i] = BACKSLASH THEN ParseString(x, i + 2, Append(acc, x[i + 1]))
  ELSE ParseString(x, i + 1, Append(acc, x[i]))

RECURSIVE ParseElements(_, _, _)
\* reads the elements of a JSON array of strings from position i
ParseElements(x, i, acc) ==
  IF x[i] = RBRACKET THEN acc
  ELSE IF x[i] = COMMA THEN ParseElements(x, i + 1, acc)
  ELSE LET r == ParseString(x, i + 1, <<>>)
       IN ParseElements(x, r.next, Append(acc, r.val))

\* JSON.parse of the serialisation of an array of strings
JSONParse(x) == ParseElements(x, 2, <<>>)

\* Array.prototype.toString of an array of strings
ArrayToString(arr) == Join(arr, <<COMMA>>)

\* ------------------------------------------------------------------------
\* Arrays (indices from 0, as in the source)
\* ------------------------------------------------------------------------
\* whether arr[i] is an element of the array, not `undefined`
InBounds(arr, i) == 0 <= i /\ i < Len(arr)

Max(a, b) == IF a >= b THEN a ELSE b
Min(a, b) == IF a <= b THEN a ELSE b

\* Array.prototype.slice(start, end): a negative start counts from the end
Slice(arr, start, end) ==
  LET from == IF start < 0 THEN Max(Len(arr) + start, 0) ELSE Min(start, Len(arr))
      to == IF end < 0 THEN Max(Len(arr) + end, 0) ELSE Min(end, Len(arr))
  IN IF from >= to THEN <<>> ELSE SubSeq(arr, from + 1, to)

\* Array.prototype.findIndex, given for each element whether it satisfies the
\* predicate: the first index that does, or -1
FindIndex(satisfies) ==
  LET hits == {i \in 1..Len(satisfies) : satisfies[i]}
  IN IF hits = {} THEN -1
     ELSE (CHOOSE i \in hits : \A j \in hits : i <= j) - 1

\* Array.from(new Set(arr)): the distinct values in order of first occurrence
Dedupe(arr) ==
  LET IsFirst(i) == \A j \in 1..(i - 1) : arr[j] # arr[i]
      firsts == SelectSeq([i \in 1..Len(arr) |-> i], IsFirst)
  IN [k \in 1..Len(firsts) |-> arr[firsts[k]]] \o <<>>

\* Array.prototype.sort() with no comparator (a stable sort): an element
\* stands after those that compare less, and after the earlier ones that
\* compare equal
SortDefault(arr) ==
  LET str == [i \in 1..Len(arr) |-> ArrayToString(arr[i])] \o <<>>
      rank == [i \in 1..Len(arr) |->
                 Cardinality({j \in 1..Len(arr) :
                    \/ StrLess(str[j], str[i])
                    \/ (j < i /\ ~StrLess(str[i], str[j]))})] \o <<>>
  IN [k \in 1..Len(arr) |-> arr[CHOOSE i \in 1..Len(arr) : rank[i] = k - 1]] \o <<>>

\* ------------------------------------------------------------------------
\* The paginator
\* ------------------------------------------------------------------------
PAGE_SIZE == 50

\* `cursor ? ... : 0`: undefined and the empty string are falsy
Truthy(cursor) == cursor # UNDEFINED /\ cursor # <<>>

\* cursorValue of buildFlatProps
FlatCursorValue(prefixPath, asset) == JSONStringify(prefixPath \o asset.key.path)

\* cursorValue(assets[i]): a TypeError when assets[i] is `undefined`
FlatCursorValueAt(prefixPath, assets, i) ==
  IF InBounds(assets, i) THEN FlatCursorValue(prefixPath, assets[i + 1])
  ELSE TYPE_ERROR

\* cursorValue of buildNamespaceProps
NamespaceCursorValue(prefixPath, ns) == JSONStringify(prefixPath \o ns)

\* cursorValue(namespaces[i]): a TypeError when namespaces[i] is `undefined`
NamespaceCursorValueAt(prefixPath, namespaces, i) ==
  IF InBounds(namespaces, i) THEN NamespaceCursorValue(prefixPath, namespaces[i + 1])
  ELSE TYPE_ERROR

\* faulty variant: the search compares with < where the source compares with <=
FlatCursorIndexStrict(assets, prefixPath, cursor) ==
  IF Truthy(cursor)
  THEN FindIndex([i \in 1..Len(assets) |->
                    StrLess(cursor, FlatCursorValue(prefixPath, assets[i]))])
  ELSE 0

\* cursorIndex of buildFlatProps
FlatCursorIndex(assets, prefixPath, cursor) ==
  IF Truthy(cursor)
  THEN FindIndex([i \in 1..Len(assets) |->
                    StrLE(cursor, FlatCursorValue(prefixPath, assets[i]))])
  ELSE 0

\* whether the call that computes these props throws instead of returning
Throws(props) == props.prevCursor = TYPE_ERROR \/ props.nextCursor = TYPE_ERROR

\* faulty variant: prevCursor under the test of buildNamespaceProps, cursorIndex !== 0
buildFlatPropsPrevNonZero(assets, prefixPath, cursor) ==
  LET cursorIndex == FlatCursorIndex(assets, prefixPath, cursor)
      prevPageIndex == Max(0, cursorIndex - PAGE_SIZE)
      nextPageIndex == cursorIndex + PAGE_SIZE
  IN [displayed |-> Slice(assets, cursorIndex, cursorIndex + PAGE_SIZE),
      displayPath |-> "key.path",
      prevCursor |-> IF cursorIndex # 0
                     THEN FlatCursorValueAt(prefixPath, assets, prevPageIndex)
                     ELSE UNDEFINED,
      nextCursor |-> IF nextPageIndex < Len(assets)
                     THEN FlatCursorValueAt(prefixPath, assets, nextPageIndex)
                     ELSE UNDEFINED]

\* faulty variant: nextCursor only when two more items follow the page
buildFlatPropsNextOffByOne(assets, prefixPath, cursor) ==
  LET cursorIndex == FlatCursorIndex(assets, prefixPath, cursor)
      prevPageIndex == Max(0, cursorIndex - PAGE_SIZE)
      nextPageIndex == cursorIndex + PAGE_SIZE
  IN [displayed |-> Slice(assets, cursorIndex, cursorIndex + PAGE_SIZE),
      displayPath |-> "key.path",
      prevCursor |-> IF cursorIndex > 0
                     THEN FlatCursorValueAt(prefixPath, assets, prevPageIndex)
                     ELSE UNDEFINED,
      nextCursor |-> IF nextPageIndex + 1 < Len(assets)
                     THEN FlatCursorValueAt(prefixPath, assets, nextPageIndex)
                     ELSE UNDEFINED]

buildFlatProps(assets, prefixPath, cursor) ==
  LET cursorIndex == FlatCursorIndex(assets, prefixPath, cursor)
      prevPageIndex == Max(0, cursorIndex - PAGE_SIZE)
      nextPageIndex == cursorIndex + PAGE_SIZE
  IN [displayed |-> Slice(assets, cursorIndex, cursorIndex + PAGE_SIZE),
      displayPath |-> "key.path",
      prevCursor |-> IF cursorIndex > 0
                     THEN FlatCursorValueAt(prefixPath, assets, prevPageIndex)
                     ELSE UNDEFINED,
      nextCursor |-> IF nextPageIndex < Len(assets)
                     THEN FlatCursorValueAt(prefixPath, assets, nextPageIndex)
                     ELSE UNDEFINED]

namespaceForAsset(prefixPath, asset) ==
  Slice(asset.key.path, Len(prefixPath), Len(prefixPath) + 1)

\* the distinct namespaces of the assets, as buildNamespaceProps lists them
Namespaces(assets, prefixPath) ==
  LET strings == [i \in 1..Len(assets) |->
                    JSONStringify(namespaceForAsset(prefixPath, assets[i]))] \o <<>>
      distinct == Dedupe(strings)
  IN SortDefault([i \in 1..Len(distinct) |-> JSONParse(distinct[i])] \o <<>>)

\* cursorIndex of buildNamespaceProps
NamespaceCursorIndex(namespaces, prefixPath, cursor) ==
  IF Truthy(cursor)
  THEN FindIndex([i \in 1..Len(namespaces) |->
                    StrLE(cursor, NamespaceCursorValue(prefixPath, namespaces[i]))])
  ELSE 0

\* faulty variant: the whole path of the asset compared, not its first positions
PathMatchesWhole(path, asset) == path = asset.key.path

\* path.every((part, i) => part === asset.key.path[i])
PathMatches(path, asset) ==
  \A i \in 1..Len(path) : i <= Len(asset.key.path) /\ path[i] = asset.key.path[i]

filterAssetsByNamespace(assets, paths) ==
  LET Some(asset) == \E j \in 1..Len(paths) : PathMatches(paths[j], asset)
  IN SelectSeq(assets, Some)

\* the namespaces of the page: namespaces.slice(cursorIndex, cursorIndex + PAGE_SIZE)
NamespaceSlice(assets, prefixPath, cursor) ==
  LET namespaces == Namespaces(assets, prefixPath)
      cursorIndex == NamespaceCursorIndex(namespaces, prefixPath, cursor)
  IN IF cursorIndex = -1 THEN <<>>
     ELSE Slice(namespaces, cursorIndex, cursorIndex + PAGE_SIZE)

\* faulty variant: no stop when the search finds no namespace (cursorIndex === -1)
buildNamespacePropsNoStop(assets, prefixPath, cursor) ==
  LET namespaces == Namespaces(assets, prefixPath)
      cursorIndex == NamespaceCursorIndex(namespaces, prefixPath, cursor)
      slice == Slice(namespaces, cursorIndex, cursorIndex + PAGE_SIZE)
      prevPageIndex == Max(0, cursorIndex - PAGE_SIZE)
      nextPageIndex == cursorIndex + PAGE_SIZE
      result ==
        [displayed |-> filterAssetsByNamespace(assets,
                         [i \in 1..Len(slice) |-> prefixPath \o slice[i]]),
         displayPath |-> "namespace",
         prevCursor |-> IF cursorIndex # 0
                        THEN NamespaceCursorValueAt(prefixPath, namespaces, prevPageIndex)
                        ELSE UNDEFINED,
         nextCursor |-> IF Len(namespaces) > nextPageIndex
                        THEN NamespaceCursorValueAt(prefixPath, namespaces, nextPageIndex)
                        ELSE UNDEFINED]
  IN result

\* faulty variant: nextCursor when namespaces.length >= nextPageIndex
buildNamespacePropsNextInclusive(assets, prefixPath, cursor) ==
  LET namespaces == Namespaces(assets, prefixPath)
      cursorIndex == NamespaceCursorIndex(namespaces, prefixPath, cursor)
      slice == Slice(namespaces, cursorIndex, cursorIndex + PAGE_SIZE)
      prevPageIndex == Max(0, cursorIndex - PAGE_SIZE)
      nextPageIndex == cursorIndex + PAGE_SIZE
      result ==
        [displayed |-> filterAssetsByNamespace(assets,
                         [i \in 1..Len(slice) |-> prefixPath \o slice[i]]),
         displayPath |-> "namespace",
         prevCursor |-> IF cursorIndex # 0
                        THEN NamespaceCursorValueAt(prefixPath, namespaces, prevPageIndex)
                        ELSE UNDEFINED,
         nextCursor |-> IF Len(namespaces) >= nextPageIndex
                        THEN NamespaceCursorValueAt(prefixPath, namespaces, nextPageIndex)
                        ELSE UNDEFINED]
  IN IF cursorIndex = -1
     THEN [displayed |-> <<>>, displayPath |-> "namespace",
           prevCursor |-> UNDEFINED, nextCursor |-> UNDEFINED]
     ELSE result

buildNamespaceProps(assets, prefixPath, cursor) ==
  LET namespaces == Namespaces(assets, prefixPath)
      cursorIndex == NamespaceCursorIndex(namespaces, prefixPath, cursor)
      slice == Slice(namespaces, cursorIndex, cursorIndex + PAGE_SIZE)
      prevPageIndex == Max(0, cursorIndex - PAGE_SIZE)
      nextPageIndex == cursorIndex + PAGE_SIZE
      result ==
        [displayed |-> filterAssetsByNamespace(assets,
                         [i \in 1..Len(slice) |-> prefixPath \o slice[i]]),
         displayPath |-> "namespace",
         prevCursor |-> IF cursorIndex # 0
                        THEN NamespaceCursorValueAt(prefixPath, namespaces, prevPageIndex)
                        ELSE UNDEFINED,
         nextCursor |-> IF Len(namespaces) > nextPageIndex
                        THEN NamespaceCursorValueAt(prefixPath, namespaces, nextPageIndex)
                        ELSE UNDEFINED]
  IN IF cursorIndex = -1
     THEN [displayed |-> <<>>, displayPath |-> "namespace",
           prevCursor |-> UNDEFINED, nextCursor |-> UNDEFINED]
     ELSE result

\* displayPathForAsset of a result, applied to an asset
displayPathForAsset(props, prefixPath, asset) ==
  IF props.displayPath = "key.path" THEN asset.key.path
  ELSE namespaceForAsset(prefixPath, asset)

\* ------------------------------------------------------------------------
\* The search filter of AssetsCatalogTable
\* ------------------------------------------------------------------------
SPACE == 32
STAR == 42
SLASH == 47

\* String.prototype.split(sep) for a separator of one code unit
Split(s, sep) ==
  LET cuts == {i \in 1..Len(s) : s[i] = sep}
      bounds == {0, Len(s) + 1} \cup cuts
      starts == bounds \ {Len(s) + 1}
      NextBound(b) == CHOOSE c \in bounds : c > b /\ \A d \in bounds : d > b => c <= d
      ordered == SelectSeq([i \in 1..(Len(s) + 1) |-> i - 1], LAMBDA b : b \in starts)
  IN [k \in 1..Len(ordered) |-> SubSeq(s, ordered[k] + 1, NextBound(ordered[k]) - 1)]

\* p.replace(/\*+/g, '')
RemoveStars(s) == SelectSeq(s, LAMBDA c : c # STAR)

\* String.prototype.trim (the alphabet's only white space is the space)
Trim(s) ==
  LET kept == {i \in 1..Len(s) : s[i] # SPACE}
  IN IF kept = {} THEN <<>>
     ELSE SubSeq(s, CHOOSE i \in kept : \A j \in kept : i <= j,
                    CHOOSE i \in kept : \A j \in kept : i >= j)

\* String.prototype.toLowerCase on the code units A-Z
ToLowerCase(s) == [i \in 1..Len(s) |-> IF s[i] >= 65 /\ s[i] <= 90 THEN s[i] + 32 ELSE s[i]]

\* String.prototype.includes
Includes(s, term) ==
  \E i \in 0..(Len(s) - Len(term)) : SubSeq(s, i + 1, i + Len(term)) = term

\* tokenForAssetKey of asset-graph/Utils: the path joined by "/"
tokenForAssetKey(key) == Join(key.path, <<SLASH>>)

\* the search terms of explorerPath.opsQuery
searchSeparatorAgnostic(opsQuery) ==
  LET parts == Split(opsQuery, COMMA)
      cleaned == [i \in 1..Len(parts) |-> Trim(RemoveStars(parts[i]))]
  IN SelectSeq(cleaned, LAMBDA t : t # <<>>)

\* the `null` of assetGraphData; a GraphData is [nodes |-> the ids that have a node]
NULL == [null |-> TRUE]

\* the predicate of assets.filter
PassesFilter(a, terms, graphData) ==
  \/ (graphData # NULL /\ a.id \in graphData.nodes)
  \/ Len(terms) = 0
  \/ \E i \in 1..Len(terms) : Includes(ToLowerCase(tokenForAssetKey(a.key)), terms[i])

\* filtered
Filtered(assets, opsQuery, graphData) ==
  LET terms == searchSeparatorAgnostic(opsQuery)
  IN SelectSeq(assets, LAMBDA a : PassesFilter(a, terms, graphData))

\* ------------------------------------------------------------------------
\* The assets the query may return
\* ------------------------------------------------------------------------
\* the query returns up to MaxPadPages pages of padding assets, less two (so
\* that the other keys carry the list across the end of a page)
MaxPadPages == 2
MaxPads == MaxPadPages * PAGE_SIZE - 2

\* an Asset of the query: its id and its key
Asset(path) == [id |-> path, key |-> [path |-> path]]

\* keys of one segment, two digits each ("00", "01", ...)
PadKey(j) == << <<48 + (j \div 10), 48 + (j % 10)>> >>

\* ["a"], ["a!"], ["a","b"], ["\""]
InterestingKeys ==
  { << <<97>> >>, << <<97, 33>> >>, << <<97>>, <<98>> >>, << <<QUOTE>> >> }

PadCounts == {0} \cup {p * PAGE_SIZE - 2 : p \in 1..MaxPadPages}

UniverseKeys ==
  {PadKey(j) : j \in 0..(MaxPads - 1)} \cup InterestingKeys

\* the nodes of an AssetConnection: the assets in the order of their
\* serialised keys
SortedByKey(keys) ==
  LET str == [k \in keys |-> JSONStringify(k)] @@ <<>>
      rank == [k \in keys |-> Cardinality({l \in keys : StrLess(str[l], str[k])})] @@ <<>>
  IN [i \in 1..Cardinality(keys) |-> Asset(CHOOSE k \in keys : rank[k] = i - 1)] \o <<>>

AssetLists ==
  {SortedByKey({PadKey(j) : j \in 0..(n - 1)} \cup S) :
     n \in PadCounts, S \in SUBSET InterestingKeys}

\* what the query holds: nothing yet, a PythonError, or an AssetConnection
LOADING == [loading |-> TRUE]
PythonError == [__typename |-> "PythonError"]
AssetConnection(nodes) == [__typename |-> "AssetConnection", nodes |-> nodes]
QueryResults == {PythonError} \cup {AssetConnection(l) : l \in AssetLists}

\* the padding keys next to the start of a page
BoundaryPads ==
  {j \in 0..(MaxPads - 1) : \E p \in 0..MaxPadPages : j - p * PAGE_SIZE \in -2..1}

\* the cursor the location may hold when the page is opened: none, the empty
\* string, a string between two keys (["a "]), a string after every key
\* ("]"), and the cursor of a key
CursorChoices ==
  {UNDEFINED, <<>>, <<LBRACKET, QUOTE, 97, SPACE, QUOTE, RBRACKET>>, <<RBRACKET>>}
    \cup {JSONStringify(k) : k \in InterestingKeys}
    \cup {JSONStringify(PadKey(j)) : j \in BoundaryPads}

\* the props the parent may pass: explorerPath.opsQuery ("", "*a*, zz", "zz")
\* and assetGraphData (null, or a graph whose only node is ["\""])
OpsQueries == { <<>>, <<STAR, 97, STAR, COMMA, SPACE, 122, 122>>, <<122, 122>> }
GraphDatas == { NULL, [nodes |-> { << <<QUOTE>> >> }] }
PropsChoices ==
  {<<q, NULL>> : q \in OpsQueries} \cup {<< <<122, 122>>, g >> : g \in GraphDatas}

\* ------------------------------------------------------------------------
\* AssetsCatalogTable
\* ------------------------------------------------------------------------
VARIABLES
  cursor,         \* useQueryPersistedState({queryKey: 'cursor'})
  view,           \* useAssetView()
  assetsQuery,    \* what useQuery(ASSET_CATALOG_TABLE_QUERY) holds
  explorerPath,   \* prop
  assetGraphData, \* prop
  trail           \* in the flat view, the cursors of the pages shown since the
                  \* cursor was last undefined, while only advanceCursor
                  \* moved it; <<>> otherwise

vars == <<cursor, view, assetsQuery, explorerPath, assetGraphData, trail>>

\* the render reaches the paginator: the query succeeded with some asset
Paginates ==
  /\ assetsQuery # LOADING
  /\ assetsQuery.__typename = "AssetConnection"
  /\ Len(assetsQuery.nodes) # 0

\* the render shows AssetsEmptyState
ShowsEmptyState ==
  /\ assetsQuery # LOADING
  /\ assetsQuery.__typename = "AssetConnection"
  /\ Len(assetsQuery.nodes) = 0

\* the render shows PythonErrorInfo
ShowsError == assetsQuery # LOADING /\ assetsQuery.__typename = "PythonError"

\* `filtered`, the list handed to the paginator
filtered == Filtered(assetsQuery.nodes, explorerPath.opsQuery, assetGraphData)

\* the paginator's result for the render
Props ==
  IF view = "flat" THEN buildFlatProps(filtered, <<>>, cursor)
  ELSE buildNamespaceProps(filtered, <<>>, cursor)

\* CursorPaginationControls is rendered and its handlers can run
ControlsShown == Paginates /\ ~Throws(Props)

Init ==
  /\ cursor \in CursorChoices
  /\ view \in {"flat", "directory"}
  /\ assetsQuery = LOADING
  /\ \E p \in PropsChoices : explorerPath = [opsQuery |-> p[1]] /\ assetGraphData = p[2]
  /\ trail = IF cursor = UNDEFINED /\ view = "flat" THEN <<UNDEFINED>> ELSE <<>>

\* the query answers, at first or on a refresh
QueryResult ==
  \E r \in QueryResults :
    /\ r # assetsQuery
    /\ assetsQuery' = r
    /\ trail' = IF assetsQuery = LOADING THEN trail ELSE <<>>
    /\ UNCHANGED <<cursor, view, explorerPath, assetGraphData>>

\* the parent renders the table with other props
SetProps ==
  \E p \in PropsChoices :
    /\ <<explorerPath.opsQuery, assetGraphData>> # p
    /\ explorerPath' = [opsQuery |-> p[1]]
    /\ assetGraphData' = p[2]
    /\ trail' = <<>>
    /\ UNCHANGED <<cursor, view, assetsQuery>>

\* advanceCursor={() => setCursor(nextCursor)}, offered when hasNextCursor
advanceCursor ==
  /\ ControlsShown
  /\ Props.nextCursor # UNDEFINED
  /\ cursor' = Props.nextCursor
  /\ trail' = IF trail = <<>> THEN <<>> ELSE Append(trail, Props.nextCursor)
  /\ UNCHANGED <<view, assetsQuery, explorerPath, assetGraphData>>

\* popCursor={() => setCursor(prevCursor)}, offered when hasPrevCursor
popCursor ==
  /\ ControlsShown
  /\ Props.prevCursor # UNDEFINED
  /\ cursor' = Props.prevCursor
  /\ trail' = <<>>
  /\ UNCHANGED <<view, assetsQuery, explorerPath, assetGraphData>>

\* reset={() => setCursor(undefined)}
reset ==
  /\ ControlsShown
  /\ cursor' = UNDEFINED
  /\ trail' = IF view = "flat" THEN <<UNDEFINED>> ELSE <<>>
  /\ UNCHANGED <<view, assetsQuery, explorerPath, assetGraphData>>

Next == QueryResult \/ SetProps \/ advanceCursor \/ popCursor \/ reset

Spec == Init /\ [][Next]_vars

\* ------------------------------------------------------------------------
\* Properties
\* ------------------------------------------------------------------------
\* the assets are in strictly increasing order of cursorValue (sorted, with
\* unique keys)
SortedUnique(assets) ==
  \A i \in 1..(Len(assets) - 1) :
    StrLess(FlatCursorValue(<<>>, assets[i]), FlatCursorValue(<<>>, assets[i + 1]))

\* the 0-based positions of the assets whose cursorValue is the cursor
PositionsOf(assets, c) ==
  {i \in 0..(Len(assets) - 1) : FlatCursorValue(<<>>, assets[i + 1]) = c}

\* A[i .. i+PAGE_SIZE), cut at the end of A
Window(A, i) == SubSeq(A, i + 1, Min(i + PAGE_SIZE, Len(A)))

FlatCall == Paginates /\ view = "flat"
NamespaceCall == Paginates /\ view # "flat"

\* C1: in flat mode, over a collection sorted by cursorValue with unique
\* keys, a cursor equal to cursorValue(A[i]) yields displayed[0] = A[i], and
\* displayed is exactly A[i .. i+PAGE_SIZE) cut at the end of A.
C1_FlatPageStartsAtCursor ==
  (FlatCall /\ Truthy(cursor) /\ SortedUnique(filtered)) =>
    \A i \in PositionsOf(filtered, cursor) :
      /\ Props.displayed # <<>>
      /\ Props.displayed[1] = filtered[i + 1]
      /\ Props.displayed = Window(filtered, i)

\* C1 witness: a cursor on an item after the first, with a full page cut by
\* PAGE_SIZE and not by the end of the list
C1_Witness ==
  /\ FlatCall /\ Truthy(cursor)
  /\ \E i \in PositionsOf(filtered, cursor) : i > 0 /\ i + PAGE_SIZE < Len(filtered)
  /\ Len(Props.displayed) = PAGE_SIZE

\* the cursorValue of the first item of the page that the cursor c yields
\* (of the first namespace of the window, in the namespace view)
FirstCursorValueFor(c) ==
  IF view = "flat"
  THEN LET d == buildFlatProps(filtered, <<>>, c).displayed
       IN IF d = <<>> THEN UNDEFINED ELSE FlatCursorValue(<<>>, d[1])
  ELSE LET w == NamespaceSlice(filtered, <<>>, c)
       IN IF w = <<>> THEN UNDEFINED ELSE NamespaceCursorValue(<<>>, w[1])

\* C2: in either mode, a defined nextCursor fed back as the cursor yields a
\* page whose first item (first windowed namespace) has that cursorValue.
C2_RoundTrip ==
  (Paginates /\ Props.nextCursor # UNDEFINED) =>
    FirstCursorValueFor(Props.nextCursor) = Props.nextCursor

\* the number of items the paginator windows, and its start index
PaginatedCount ==
  IF view = "flat" THEN Len(filtered) ELSE Len(Namespaces(filtered, <<>>))
CursorIndex ==
  IF view = "flat" THEN FlatCursorIndex(filtered, <<>>, cursor)
  ELSE NamespaceCursorIndex(Namespaces(filtered, <<>>), <<>>, cursor)

\* C3 as stated: with at most PAGE_SIZE items, prevCursor and nextCursor are
\* both undefined whatever the cursor.
C3_NoCursorsOnSinglePage ==
  (Paginates /\ PaginatedCount <= PAGE_SIZE) =>
    (Props.prevCursor = UNDEFINED /\ Props.nextCursor = UNDEFINED)

\* C3 amended: with at most PAGE_SIZE items, prevCursor is defined exactly
\* when the start index is positive, and nextCursor is defined only when the
\* flat search finds no item (index -1) among exactly PAGE_SIZE items.
C3_CursorsOnSinglePage ==
  (Paginates /\ PaginatedCount <= PAGE_SIZE) =>
    /\ (Props.prevCursor # UNDEFINED) <=> (CursorIndex > 0)
    /\ (Props.nextCursor # UNDEFINED) <=>
         (view = "flat" /\ CursorIndex = -1 /\ PaginatedCount = PAGE_SIZE)

\* C3 witness: at most PAGE_SIZE items and a cursor in their middle
C3_Witness ==
  /\ Paginates /\ PaginatedCount <= PAGE_SIZE /\ PaginatedCount > 1
  /\ CursorIndex > 0
  /\ Props.prevCursor # UNDEFINED /\ Props.nextCursor = UNDEFINED

\* the cursor is strictly greater than the cursorValue of every namespace
CursorPastEveryNamespace ==
  LET namespaces == Namespaces(filtered, <<>>)
  IN \A i \in 1..Len(namespaces) :
       StrLess(NamespaceCursorValue(<<>>, namespaces[i]), cursor)

\* C4: in namespace mode, a cursor strictly greater than the cursorValue of
\* every namespace yields displayed = [] and both cursors undefined.
C4_PastEndIsEmptyPage ==
  (NamespaceCall /\ Truthy(cursor) /\ CursorPastEveryNamespace) =>
    /\ ~Throws(Props)
    /\ Props.displayed = <<>>
    /\ Props.prevCursor = UNDEFINED
    /\ Props.nextCursor = UNDEFINED

\* C4 witness: such a cursor over a list that has namespaces
C4_Witness ==
  /\ NamespaceCall /\ Truthy(cursor) /\ CursorPastEveryNamespace
  /\ Len(Namespaces(filtered, <<>>)) > 1
  /\ Props.displayed = <<>>

\* the asset's path agrees with q on every position of q
AgreesWith(asset, q) ==
  /\ Len(q) <= Len(asset.key.path)
  /\ SubSeq(asset.key.path, 1, Len(q)) = q

\* C5: in namespace mode, displayed is exactly the assets, in input order,
\* whose path agrees with prefixPath ++ ns for a namespace ns of the window
\* of at most PAGE_SIZE namespaces; displayPathForAsset is the one segment
\* after prefixPath (the first segment); with no cursor and at most PAGE_SIZE
\* namespaces every asset is displayed.
C5_NamespacePage ==
  NamespaceCall =>
    LET window == NamespaceSlice(filtered, <<>>, cursor)
        prefixes == {<<>> \o window[k] : k \in 1..Len(window)}
        InWindow(a) == \E q \in prefixes : AgreesWith(a, q)
        props == Props
    IN /\ Len(window) <= PAGE_SIZE
       /\ props.displayed = SelectSeq(filtered, InWindow)
       /\ \A k \in 1..Len(props.displayed) :
            displayPathForAsset(props, <<>>, props.displayed[k])
              = <<props.displayed[k].key.path[1]>>
       /\ (cursor = UNDEFINED /\ PaginatedCount <= PAGE_SIZE) => props.displayed = filtered

\* C5 witness: a page that leaves assets out and shows an asset of two
\* segments under its namespace
C5_Witness ==
  /\ NamespaceCall
  /\ Len(Props.displayed) < Len(filtered)
  /\ \E k \in 1..Len(Props.displayed) :
       /\ Len(Props.displayed[k].key.path) = 2
       /\ displayPathForAsset(Props, <<>>, Props.displayed[k]) = << <<97>> >>

\* C6: the namespaces that are windowed stand in strictly increasing order
\* of cursorValue (each before the next, hence every i < j), the order the
\* cursor comparison uses.
C6_NamespacesSortedByCursorValue ==
  NamespaceCall =>
    LET namespaces == Namespaces(filtered, <<>>)
    IN \A i \in 1..(Len(namespaces) - 1) :
         StrLess(NamespaceCursorValue(<<>>, namespaces[i]),
                 NamespaceCursorValue(<<>>, namespaces[i + 1]))

\* C7: the paginator is only invoked with a non-empty list (an empty list to
\* paginate shows the empty state instead), and never on the PythonError
\* path.
C7_PaginatorGetsNonEmptyList ==
  /\ Paginates => filtered # <<>>
  /\ ShowsError => ~Paginates

\* C8: in flat mode with any defined cursor over a sorted collection,
\* displayed is exactly the first up-to-PAGE_SIZE assets whose cursorValue
\* is >= cursor; it is empty when there is none.
C8_FlatPageIsAtOrAfterCursor ==
  (FlatCall /\ Truthy(cursor) /\ SortedUnique(filtered)) =>
    LET AtOrAfter(a) == StrLE(cursor, FlatCursorValue(<<>>, a))
        rest == SelectSeq(filtered, AtOrAfter)
    IN Props.displayed = SubSeq(rest, 1, Min(PAGE_SIZE, Len(rest)))

CeilDiv(n, d) == (n + d - 1) \div d

\* the page shown at the k-th cursor of the trail
TrailPage(k) == buildFlatProps(filtered, <<>>, trail[k]).displayed

\* a walk from the first page is under way over a sorted, non-empty list
Walking == FlatCall /\ trail # <<>> /\ Len(filtered) >= 1 /\ SortedUnique(filtered)

\* the walk has reached a page with no next cursor, after ceil(n / PAGE_SIZE)
\* pages that together are the whole list
WalkDone ==
  /\ Walking
  /\ Props.nextCursor = UNDEFINED
  /\ Len(trail) = CeilDiv(Len(filtered), PAGE_SIZE)
  /\ Concat([k \in 1..Len(trail) |-> TrailPage(k)]) = filtered

\* C9: in flat mode over a sorted list of n >= 1 assets with unique keys,
\* advancing from the undefined cursor while a next cursor is offered shows
\* consecutive disjoint windows, each of PAGE_SIZE assets except possibly the
\* last; the walk never grows past ceil(n / PAGE_SIZE) pages (every advance
\* adds one page to the trail, so it ends), and the page without next cursor
\* is the ceil(n / PAGE_SIZE)-th, the pages together showing every asset once.
C9_WalkCoversEveryAsset ==
  Walking =>
    /\ trail[Len(trail)] = cursor
    /\ Len(trail) <= CeilDiv(Len(filtered), PAGE_SIZE)
    /\ \A k \in 1..Len(trail) :
         /\ TrailPage(k) = Window(filtered, (k - 1) * PAGE_SIZE)
         /\ (k < Len(trail) \/ Props.nextCursor # UNDEFINED) => Len(TrailPage(k)) = PAGE_SIZE
    /\ Props.nextCursor = UNDEFINED => WalkDone

\* C9 witness: a walk that ended on its third page
C9_Witness == WalkDone /\ Len(trail) = 3 /\ Len(TrailPage(3)) < PAGE_SIZE

\* C10: in both modes and for every input, the elements read for prevCursor
\* and nextCursor are inside the list: no call throws.
C10_NoOutOfRangeRead == Paginates => ~Throws(Props)

\* C10 witness: the search finds nothing (index -1) and the element at index
\* PAGE_SIZE - 1 is read for nextCursor
C10_Witness ==
  /\ FlatCall /\ CursorIndex = -1
  /\ Props.nextCursor # UNDEFINED /\ ~Throws(Props)

====
